---- MODULE Spec2Model ----
(***************************************************************************)
(* SearchLinkNode (scrapegraphai/nodes/search_link_node.py).               *)
(*                                                                         *)
(* The node is constructed from a node_config, and execute(state) walks    *)
(* the chunks of state["parsed_doc"], invokes the prompt | llm | parser    *)
(* chain once per chunk, merges every parsed answer into the local dict    *)
(* relevant_links with dict.update, and finally writes that dict into      *)
(* state["relevant_links"] and returns state.                              *)
(*                                                                         *)
(* Python values:                                                          *)
(*   - a dict is a function whose DOMAIN is its key set;                   *)
(*   - an Optional value is <<>> (None) or <<v>> (the value v);            *)
(*   - a raised exception is recorded by its type name in "error".         *)
(***************************************************************************)
EXTENDS Integers, Sequences, FiniteSets, TLC

VARIABLES
    node_config,     \* the node_config argument of __init__ (Optional[dict])
    node,            \* attributes of the constructed node (empty before __init__ ends)
    state,           \* the caller's state dict, passed by reference to execute
    pc,              \* position of the control flow
    state0,          \* value of state when the running execute was called
    relevant_links,  \* execute's local accumulator (line 99)
    i,               \* enumerate index of the loop (number of chunks fully merged)
    answer,          \* the value returned by merge_chain.invoke for the current chunk
    requests,        \* inputs handed to merge_chain.invoke during this execute, in order
    responses,       \* answers merged into relevant_links during this execute, in order
    outstanding,     \* number of backend requests in flight
    error,           \* exception raised by the running call ("" when none)
    result,          \* Optional: the dict returned by the last completed execute
    prev             \* the last successful execute: its responses and the state it left

vars == <<node_config, node, state, pc, state0, relevant_links, i, answer,
          requests, responses, outstanding, error, result, prev>>

-----------------------------------------------------------------------------
(* Bounds of the model *)

MaxChunks == 2

(* Values the environment supplies *)

None == <<>>
Some(v) == <<v>>
EmptyDict == [k \in {} |-> ""]

Chunks == {"c1", "c2"}
Prompts == {"task"}
LinkLists == {<<>>, <<"x", "y">>}
BoundedSeq(S, n) == UNION {[1..m -> S] : m \in 0..n}
Docs == BoundedSeq(Chunks, MaxChunks)

\* dicts the JSON output parser can hand back for one chunk
AnswerDicts == {[x |-> "d1"], [x |-> "d2"], [y |-> "d2"], [x |-> "d1", y |-> "null"]}
\* JSON lists the parser can hand back: dict.update consumes the leading
\* key/value pairs (given here as the dict they amount to) and raises at the
\* first element that is not a pair
AnswerLists == {EmptyDict, [y |-> "d1"]}
Answers == {[kind |-> "dict", items |-> d] : d \in AnswerDicts}
             \cup {[kind |-> "list", items |-> d] : d \in AnswerLists}
NoAnswer == [kind |-> "none", items |-> EmptyDict]
ChainErrors == {"BackendError", "ParseError"}

\* node_config values: None, or a dict with any of the recognised options
NodeConfigs == {None, Some(EmptyDict), Some([verbose |-> TRUE]),
                Some([llm_model |-> "llm"]),
                Some([llm_model |-> "llm", verbose |-> TRUE])}

\* a dict holding key k with one of the values vs, or not holding k
Entry(k, vs) == {EmptyDict} \cup {k :> v : v \in vs}
States == {[url |-> "u"] @@ a @@ b @@ c @@ d :
              a \in Entry("user_prompt", Prompts),
              b \in Entry("link_urls", LinkLists),
              c \in Entry("parsed_doc", Docs),
              d \in Entry("relevant_links", {[y |-> "old"]})}

-----------------------------------------------------------------------------
(* dict operations *)

\* dict.get(key): the value, or None
Get(d, k) == IF k \in DOMAIN d THEN Some(d[k]) ELSE None

\* dict.get(key, default)
GetDefault(d, k, default) == IF k \in DOMAIN d THEN d[k] ELSE default

UpdateKeepsOld(d, other) == d @@ other

\* d.update(other): every key of other is set in d, overwriting
Update(d, other) == other @@ d

NoPrev == [ok |-> FALSE, responses |-> <<>>, state |-> EmptyDict]

-----------------------------------------------------------------------------
Init ==
    /\ node_config \in NodeConfigs
    /\ node = EmptyDict
    /\ state \in States
    /\ pc = "new"
    /\ state0 = EmptyDict
    /\ relevant_links = EmptyDict
    /\ i = 0
    /\ answer = NoAnswer
    /\ requests = <<>>
    /\ responses = <<>>
    /\ outstanding = 0
    /\ error = ""
    /\ result = None
    /\ prev = NoPrev

locals == <<state0, relevant_links, i, answer, requests, responses, outstanding>>

ConstructLenient ==
    /\ pc = "new"
    /\ node' = [llm_model |-> IF node_config = None THEN "None"
                              ELSE GetDefault(node_config[1], "llm_model", "None"),
                verbose |-> IF node_config = None THEN FALSE
                            ELSE GetDefault(node_config[1], "verbose", FALSE)]
    /\ pc' = "idle"
    /\ UNCHANGED <<node_config, state, locals, error, result, prev>>

\* SearchLinkNode.__init__
Construct ==
    /\ pc = "new"
    /\ IF node_config = None
       THEN \* None["llm_model"]
            /\ error' = "TypeError"
            /\ pc' = "ctor_failed"
            /\ UNCHANGED node
       ELSE IF "llm_model" \notin DOMAIN node_config[1]
       THEN /\ error' = "KeyError"
            /\ pc' = "ctor_failed"
            /\ UNCHANGED node
       ELSE /\ node' = [llm_model |-> node_config[1]["llm_model"],
                        verbose |-> GetDefault(node_config[1], "verbose", FALSE)]
            /\ pc' = "idle"
            /\ UNCHANGED error
    /\ UNCHANGED <<node_config, state, locals, result, prev>>

-----------------------------------------------------------------------------
(* execute: the values read from state at lines 71-73 *)

user_prompt == Get(state0, "user_prompt")
links == Get(state0, "link_urls")
parsed_content_chunks == Get(state0, "parsed_doc")

\* number of calls of merge_chain.invoke made by the running execute
invocations == Len(requests)

ExecuteResumesAccumulator ==
    /\ pc = "idle"
    /\ state0' = state
    /\ relevant_links' = GetDefault(state, "relevant_links", EmptyDict)
    /\ i' = 0
    /\ answer' = NoAnswer
    /\ requests' = <<>>
    /\ responses' = <<>>
    /\ outstanding' = 0
    /\ error' = ""
    /\ result' = None
    /\ pc' = "loop"
    /\ UNCHANGED <<node_config, node, state, prev>>

\* execute is called: lines 68-99, up to the head of the loop
Execute ==
    /\ pc = "idle"
    /\ state0' = state
    /\ relevant_links' = EmptyDict
    /\ i' = 0
    /\ answer' = NoAnswer
    /\ requests' = <<>>
    /\ responses' = <<>>
    /\ outstanding' = 0
    /\ error' = ""
    /\ result' = None
    /\ pc' = "loop"
    /\ UNCHANGED <<node_config, node, state, prev>>

\* the loop head when state has no "parsed_doc": iterating tqdm(None) raises
IterateNone ==
    /\ pc = "loop"
    /\ parsed_content_chunks = None
    /\ error' = "TypeError"
    /\ pc' = "failed"
    /\ UNCHANGED <<node_config, node, state, locals, result, prev>>

RequestFromEnd(n) ==
    [content |-> parsed_content_chunks[1][Len(parsed_content_chunks[1]) - n],
     links |-> links,
     user_prompt |-> user_prompt]

\* the request built for the chunk at (0-based) index n, lines 114-117
Request(n) == [content |-> parsed_content_chunks[1][n + 1],
               links |-> links,
               user_prompt |-> user_prompt]

InvokeSkipsSeen ==
    /\ pc = "loop"
    /\ parsed_content_chunks # None
    /\ i < Len(parsed_content_chunks[1])
    /\ IF \E j \in 1..Len(requests) : requests[j].content = Request(i).content
       THEN /\ i' = i + 1
            /\ responses' = Append(responses, EmptyDict)
            /\ UNCHANGED <<requests, outstanding, pc>>
       ELSE /\ requests' = Append(requests, Request(i))
            /\ outstanding' = outstanding + 1
            /\ pc' = "awaiting"
            /\ UNCHANGED <<i, responses>>
    /\ UNCHANGED <<node_config, node, state, state0, relevant_links, answer,
                   error, result, prev>>

\* the loop takes the next chunk and calls merge_chain.invoke, lines 101-117
Invoke ==
    /\ pc = "loop"
    /\ parsed_content_chunks # None
    /\ i < Len(parsed_content_chunks[1])
    /\ requests' = Append(requests, Request(i))
    /\ outstanding' = outstanding + 1
    /\ pc' = "awaiting"
    /\ UNCHANGED <<node_config, node, state, state0, relevant_links, i, answer,
                   responses, error, result, prev>>

\* merge_chain.invoke returns the parsed answer, line 114
Respond ==
    /\ pc = "awaiting"
    /\ \E a \in Answers : answer' = a
    /\ outstanding' = outstanding - 1
    /\ pc' = "merge"
    /\ UNCHANGED <<node_config, node, state, state0, relevant_links, i,
                   requests, responses, error, result, prev>>

RespondRaiseSwallowed ==
    /\ pc = "awaiting"
    /\ \E e \in ChainErrors : error' = e
    /\ outstanding' = outstanding - 1
    /\ i' = i + 1
    /\ pc' = "loop"
    /\ UNCHANGED <<node_config, node, state, state0, relevant_links, answer,
                   requests, responses, result, prev>>

\* merge_chain.invoke raises (the llm call or the output parser), line 114:
\* nothing catches it, execute is left
RespondRaise ==
    /\ pc = "awaiting"
    /\ \E e \in ChainErrors : error' = e
    /\ outstanding' = outstanding - 1
    /\ pc' = "failed"
    /\ UNCHANGED <<node_config, node, state, state0, relevant_links, i, answer,
                   requests, responses, result, prev>>

MergeAndPublish ==
    /\ pc = "merge"
    /\ answer.kind = "dict"
    /\ relevant_links' = Update(relevant_links, answer.items)
    /\ state' = ("relevant_links" :> relevant_links') @@ state
    /\ responses' = Append(responses, answer.items)
    /\ i' = i + 1
    /\ pc' = "loop"
    /\ UNCHANGED <<node_config, node, state0, answer, requests, outstanding,
                   error, result, prev>>

\* relevant_links.update(answer) with a dict, line 118, and the loop goes on
Merge ==
    /\ pc = "merge"
    /\ answer.kind = "dict"
    /\ relevant_links' = Update(relevant_links, answer.items)
    /\ responses' = Append(responses, answer.items)
    /\ i' = i + 1
    /\ pc' = "loop"
    /\ UNCHANGED <<node_config, node, state, state0, answer, requests,
                   outstanding, error, result, prev>>

\* relevant_links.update(answer) with a list, line 118: the leading pairs are
\* stored, then update raises
MergeRaise ==
    /\ pc = "merge"
    /\ answer.kind = "list"
    /\ relevant_links' = Update(relevant_links, answer.items)
    /\ error' = "TypeError"
    /\ pc' = "failed"
    /\ UNCHANGED <<node_config, node, state, state0, i, answer, requests,
                   responses, outstanding, result, prev>>

CommitReplacesState ==
    /\ pc = "loop"
    /\ parsed_content_chunks # None
    /\ i = Len(parsed_content_chunks[1])
    /\ state' = [relevant_links |-> relevant_links]
    /\ result' = Some(state')
    /\ pc' = "done"
    /\ UNCHANGED <<node_config, node, locals, error, prev>>

CommitSkipsEmpty ==
    /\ pc = "loop"
    /\ parsed_content_chunks # None
    /\ i = Len(parsed_content_chunks[1])
    /\ state' = IF relevant_links = EmptyDict THEN state
                ELSE ("relevant_links" :> relevant_links) @@ state
    /\ result' = Some(state')
    /\ pc' = "done"
    /\ UNCHANGED <<node_config, node, locals, error, prev>>

\* the loop is exhausted: state.update({"relevant_links": ...}); return state,
\* lines 119-120
Commit ==
    /\ pc = "loop"
    /\ parsed_content_chunks # None
    /\ i = Len(parsed_content_chunks[1])
    /\ state' = Update(state, [relevant_links |-> relevant_links])
    /\ result' = Some(state')
    /\ pc' = "done"
    /\ UNCHANGED <<node_config, node, locals, error, prev>>

\* control is back with the caller, which may call execute again on the same
\* state dict; a successful call is remembered in prev
Return ==
    /\ pc \in {"done", "failed"}
    /\ prev' = IF pc = "done"
               THEN [ok |-> TRUE, responses |-> responses, state |-> state]
               ELSE prev
    /\ pc' = "idle"
    /\ UNCHANGED <<node_config, node, state, locals, error, result>>

Next ==
    \/ Construct
    \/ Execute
    \/ IterateNone
    \/ Invoke
    \/ Respond
    \/ RespondRaise
    \/ Merge
    \/ MergeRaise
    \/ Commit
    \/ Return

Spec == Init /\ [][Next]_vars

-----------------------------------------------------------------------------
(* Properties *)

\* execute has been entered and control has not yet gone back to the caller
Running == pc \in {"loop", "awaiting", "merge", "done", "failed"}

\* keys of the dicts in the sequence ds
KeysOf(ds) == UNION {DOMAIN ds[j] : j \in 1..Len(ds)}

\* index of the last dict of ds that holds key k
LastWith(ds, k) ==
    CHOOSE j \in 1..Len(ds) :
        /\ k \in DOMAIN ds[j]
        /\ \A m \in (j + 1)..Len(ds) : k \notin DOMAIN ds[m]

\* the right-biased union of the dicts of ds: every key of any of them, with
\* the value of the last one that holds it
RightBiasedUnion(ds) == [k \in KeysOf(ds) |-> ds[LastWith(ds, k)][k]]

\* C1: when state has no "user_prompt", execute fails before any backend
\* invocation: no request is ever made and the call does not complete.
C1_MissingPromptFailsFirst ==
    (Running /\ user_prompt = None) => (invocations = 0 /\ pc # "done")

\* C2: after a successful execute, state["relevant_links"] is the
\* right-biased union of the per-chunk answers in parsed_doc order: one answer
\* per chunk, the key set is the union of their keys, and each key has the
\* value of the last answer that holds it.
C2_RightBiasedUnion ==
    pc = "done" =>
        /\ Len(responses) = Len(parsed_content_chunks[1])
        /\ "relevant_links" \in DOMAIN state
        /\ DOMAIN state["relevant_links"] = KeysOf(responses)
        /\ state["relevant_links"] = RightBiasedUnion(responses)

\* a later chunk overwrote x and the y of the earlier chunk was kept
C2_Witness ==
    /\ pc = "done"
    /\ responses = <<[x |-> "d1", y |-> "null"], [x |-> "d2"]>>
    /\ state["relevant_links"] = [x |-> "d2", y |-> "null"]

\* C3: when execute completes on a non-empty parsed_doc, the number of
\* backend invocations equals the number of chunks, and the j-th invocation
\* is for the j-th chunk (duplicates included).
C3_OneInvocationPerChunk ==
    (pc = "done" /\ parsed_content_chunks[1] # <<>>) =>
        /\ invocations = Len(parsed_content_chunks[1])
        /\ \A j \in 1..invocations :
               requests[j].content = parsed_content_chunks[1][j]

\* two identical chunks were both sent to the backend
C3_Witness ==
    /\ pc = "done"
    /\ parsed_content_chunks = Some(<<"c1", "c1">>)
    /\ invocations = 2

C5_Frame ==
    pc = "done" =>
        /\ DOMAIN state = DOMAIN state0 \cup {"relevant_links"}
        /\ \A k \in DOMAIN state0 \ {"relevant_links"} : state[k] = state0[k]
        /\ result = Some(state)

\* relevant_links was added to a state that had the three input keys
C5_Witness ==
    /\ pc = "done"
    /\ DOMAIN state0 = {"url", "user_prompt", "link_urls", "parsed_doc"}
    /\ responses # <<>>
    /\ "relevant_links" \in DOMAIN state

\* C6: until execute completes, and so whenever it fails, state is exactly
\* what it was when execute was called.
C6_NoPartialCommit ==
    pc \in {"loop", "awaiting", "merge", "failed"} => state = state0

\* the second chunk failed after the first one had been merged
C6_Witness ==
    /\ pc = "failed"
    /\ error \in ChainErrors
    /\ Len(responses) = 1
    /\ relevant_links # EmptyDict
    /\ state = state0

\* C7: requests are issued in parsed_doc order and never overlap: the j-th
\* request carries the j-th chunk, at most one request is outstanding, and a
\* request is outstanding exactly while the chain is awaited, with all
\* earlier answers already merged.
C7_SequentialInOrder ==
    /\ outstanding \in {0, 1}
    /\ outstanding = 1 <=> pc = "awaiting"
    /\ Len(requests) <= Len(responses) + 1
    /\ pc = "awaiting" => (Len(requests) = i + 1 /\ Len(responses) = i)
    /\ \A j \in 1..Len(requests) :
           requests[j].content = parsed_content_chunks[1][j]

\* the second of two different chunks is in flight
C7_Witness ==
    /\ pc = "awaiting"
    /\ Len(requests) = 2
    /\ requests[1].content # requests[2].content
    /\ Len(responses) = 1

\* C8: once __init__ has run: with node_config None or without "llm_model"
\* it has raised and no node exists; otherwise the node exists, holds the
\* llm_model, and verbose is the given value, or False when not given.
C8_Construction ==
    pc # "new" =>
        IF node_config = None \/ "llm_model" \notin DOMAIN node_config[1]
        THEN /\ pc = "ctor_failed"
             /\ error \in {"TypeError", "KeyError"}
             /\ node = EmptyDict
        ELSE /\ pc # "ctor_failed"
             /\ node.llm_model = node_config[1]["llm_model"]
             /\ node.verbose = GetDefault(node_config[1], "verbose", FALSE)

\* the default node_config
C8_Witness ==
    /\ pc = "ctor_failed"
    /\ node_config = None
    /\ node = EmptyDict

\* C9: when the chain raises for the k-th chunk (k = i + 1), execute is
\* left at once: k invocations were made, the answers merged are those of
\* the k - 1 earlier chunks only, and nothing is in flight.
C9_FailureStops ==
    error \in ChainErrors =>
        /\ pc \in {"failed", "idle"}
        /\ invocations = i + 1
        /\ Len(responses) = i
        /\ relevant_links = RightBiasedUnion(responses)
        /\ outstanding = 0

\* the first of two chunks failed in the parser
C9_Witness ==
    /\ pc = "failed"
    /\ error = "ParseError"
    /\ Len(parsed_content_chunks[1]) = 2
    /\ invocations = 1

\* C10: nothing is carried over between invocations: a key of the
\* relevant_links found in state that no answer of this invocation holds is
\* gone afterwards, and an execute with the same answers as the previous
\* successful one leaves the state that one left.
C10_Stateless ==
    pc = "done" =>
        /\ "relevant_links" \in DOMAIN state0 =>
               \A k \in DOMAIN state0["relevant_links"] \ KeysOf(responses) :
                   k \notin DOMAIN state["relevant_links"]
        /\ (prev.ok /\ responses = prev.responses) => state = prev.state

\* a second execute on the same state dropped a key the first one had set
C10_Witness ==
    /\ pc = "done"
    /\ prev.ok
    /\ state0 = prev.state
    /\ KeysOf(prev.responses) \ KeysOf(responses) # {}
    /\ responses # <<>>

====
